---- MODULE Spec2Model ----
(***************************************************************************)
(* Model of two parts of bacon:                                            *)
(*   - the nextest line analyzer (src/analysis/nextest/mod.rs), a pure     *)
(*     classifier of styled output lines, stepped check by check;          *)
(*   - Settings::read (src/conf/settings.rs), which layers configuration   *)
(*     elements and launch arguments over the hardcoded defaults.          *)
(* Text is modelled as sequences of one-character strings so that trim     *)
(* and the regular expressions are computed, not assumed.                  *)
(***************************************************************************)
EXTENDS Integers, Sequences, FiniteSets, TLC

VARIABLES
    content,     \* cmd_line.content.strings: the styled line being analyzed
    pc,          \* position inside analyze_line
    result,      \* Option<LineAnalysis>: what analyze_line returned
    stdCalls,    \* number of invocations of standard::analyze_line
    stdArg,      \* Option<TLine>: the line handed to standard::analyze_line
    stdRet,      \* Option<LineAnalysis>: what standard::analyze_line returned
    settings,    \* the Settings value built by Settings::read
    stage,       \* position inside Settings::read
    applied,     \* the configuration elements applied so far, in order
    args         \* the launch arguments

vars == <<content, pc, result, stdCalls, stdArg, stdRet, settings, stage, applied, args>>
lineVars == <<content, pc, result, stdCalls, stdArg, stdRet>>
settingsVars == <<settings, stage, applied, args>>

----------------------------------------------------------------------------
(* Option<T> *)

None == [some |-> FALSE]
Some(v) == [some |-> TRUE, val |-> v]

----------------------------------------------------------------------------
(* Text: a string is a sequence of characters. *)

WhiteSpace == {" ", "\t", "\n"}
Digits == {"0", "1", "2", "3", "4", "5", "6", "7", "8", "9"}

RECURSIVE trim_start(_)
trim_start(s) ==
    IF s = <<>> THEN s
    ELSE IF Head(s) \in WhiteSpace THEN trim_start(Tail(s)) ELSE s

RECURSIVE trim_end(_)
trim_end(s) ==
    IF s = <<>> THEN s
    ELSE IF s[Len(s)] \in WhiteSpace THEN trim_end(SubSeq(s, 1, Len(s) - 1)) ELSE s

\* str::trim: leading and trailing whitespace removed
trim(s) == trim_end(trim_start(s))

starts_with(s, p) == Len(s) >= Len(p) /\ SubSeq(s, 1, Len(p)) = p
strip_prefix(s, p) == SubSeq(s, Len(p) + 1, Len(s))

RECURSIVE skip_digits(_)
skip_digits(s) ==
    IF s # <<>> /\ Head(s) \in Digits THEN skip_digits(Tail(s)) ELSE s

T_DASHES_SP == <<"-", "-", "-", " ">>
T_DASHES == <<"-", "-", "-">>
T_SP_DASHES == <<" ", "-", "-", "-">>
T_STDOUT == <<"S", "T", "D", "O", "U", "T", ":">>
T_STDERR == <<"S", "T", "D", "E", "R", "R", ":">>
T_PASS == <<"P", "A", "S", "S">>
T_FAIL == <<"F", "A", "I", "L">>
T_CANCELING == <<"C", "a", "n", "c", "e", "l", "i", "n", "g">>
T_ERROR == <<"e", "r", "r", "o", "r">>
T_TEST_RUN_FAILED ==
    <<":", " ", "t", "e", "s", "t", " ", "r", "u", "n", " ", "f", "a", "i", "l", "e", "d">>
T_RUNNING_SP == <<"r", "u", "n", "n", "i", "n", "g", " ">>
T_SP_TEST == <<" ", "t", "e", "s", "t">>
T_SECTION_LINE == <<"-", "-", "-", "-", "-", "-", "-", "-", "-", "-", "-", "-">>

\* regex ^STD(OUT|ERR):\s*$
is_std_title(raw) ==
    /\ starts_with(raw, T_STDOUT) \/ starts_with(raw, T_STDERR)
    /\ \A i \in (Len(T_STDOUT) + 1)..Len(raw) : raw[i] \in WhiteSpace

\* regex ^running \d+ tests?$
is_running_tests(s) ==
    /\ starts_with(s, T_RUNNING_SP)
    /\ LET after == strip_prefix(s, T_RUNNING_SP)
           rest == skip_digits(after)
       IN /\ Len(rest) < Len(after)
          /\ rest \in {T_SP_TEST, T_SP_TEST \o <<"s">>}

----------------------------------------------------------------------------
(* Styles and styled strings *)

CSI_TITLE == "ESC[35;1m"
CSI_PASS == "ESC[32;1m"
CSI_ERROR == "ESC[31;1m"
CSI_CYAN == "ESC[36m"

TString(csi, raw) == [csi |-> csi, raw |-> raw]


----------------------------------------------------------------------------
(* Key extraction and the shape checks of the nextest analyzer *)

\* mutant: the closing run is looked for before the empty style is skipped
RECURSIVE key_loop_close_first(_, _)
key_loop_close_first(strings, key) ==
    IF strings = <<>> THEN [key |-> key, rest |-> <<>>]
    ELSE LET s == Head(strings)
         IN IF s.raw = T_SP_DASHES \/ s.csi = CSI_TITLE
            THEN [key |-> key, rest |-> Tail(strings)]
            ELSE IF s.csi = "" THEN key_loop_close_first(Tail(strings), key)
                 ELSE key_loop_close_first(Tail(strings), key \o s.raw)

\* the for loop of extract_key_after_crate_name: consumes runs until the
\* closing run (which is consumed too); returns the key and what is left
RECURSIVE key_loop(_, _)
key_loop(strings, key) ==
    IF strings = <<>> THEN [key |-> key, rest |-> <<>>]
    ELSE LET s == Head(strings)
         IN IF s.csi = "" THEN key_loop(Tail(strings), key)
            ELSE IF s.raw = T_SP_DASHES \/ s.csi = CSI_TITLE
                 THEN [key |-> key, rest |-> Tail(strings)]
                 ELSE key_loop(Tail(strings), key \o s.raw)

\* mutant: only the crate name is skipped, the blank is not
extract_key_skip_one(strings) ==
    LET after == SubSeq(strings, 2, Len(strings))
        r == key_loop(after, <<>>)
    IN IF r.rest # <<>> THEN None
       ELSE IF r.key = <<>> THEN None ELSE Some(r.key)

\* mutant: an empty key is returned as a key
extract_key_allow_empty(strings) ==
    LET after == SubSeq(strings, 3, Len(strings))
        r == key_loop(after, <<>>)
    IN IF r.rest # <<>> THEN None ELSE Some(r.key)

\* strings: the runs the iterator has not yielded yet
extract_key_after_crate_name(strings) ==
    LET after == SubSeq(strings, 3, Len(strings))  \* skip crate name, skip blank
        r == key_loop(after, <<>>)
    IN IF r.rest # <<>> THEN None
       ELSE IF r.key = <<>> THEN None ELSE Some(r.key)

\* mutant: the first two runs must carry the title style
title_key_styled(c) ==
    IF Len(c) < 2 THEN None
    ELSE IF c[1].csi # CSI_TITLE \/ c[1].raw # T_DASHES_SP \/ c[2].csi # CSI_TITLE THEN None
    ELSE IF ~is_std_title(c[2].raw) THEN None
    ELSE extract_key_after_crate_name(SubSeq(c, 3, Len(c)))

title_key(c) ==
    IF Len(c) < 2 THEN None
    ELSE IF c[1].raw # T_DASHES_SP THEN None
    ELSE IF ~is_std_title(c[2].raw) THEN None
    ELSE extract_key_after_crate_name(SubSeq(c, 3, Len(c)))

\* mutant: the style of the first run is not looked at
as_test_result_text_only(c) ==
    IF Len(c) < 1 THEN None
    ELSE LET first == c[1]
             isPass == trim(first.raw) = T_PASS
             isFail == trim(first.raw) = T_FAIL
         IN IF ~(isPass \/ isFail) THEN None
            ELSE IF ~(Len(c) >= 2 /\ c[2].csi = "") THEN None
            ELSE LET key == extract_key_after_crate_name(SubSeq(c, 3, Len(c)))
                 IN IF key.some THEN Some([key |-> key.val, pass |-> isPass])
                    ELSE None

as_test_result(c) ==
    IF Len(c) < 1 THEN None
    ELSE LET first == c[1]
             isPass == first.csi = CSI_PASS /\ trim(first.raw) = T_PASS
             isFail == first.csi = CSI_ERROR /\ trim(first.raw) = T_FAIL
         IN IF ~(isPass \/ isFail) THEN None
            ELSE IF ~(Len(c) >= 2 /\ c[2].csi = "") THEN None
            ELSE LET key == extract_key_after_crate_name(SubSeq(c, 3, Len(c)))
                 IN IF key.some THEN Some([key |-> key.val, pass |-> isPass])
                    ELSE None

\* mutant: the third strings.next() is not required to be None
is_error_test_run_failed_prefix(c) ==
    /\ Len(c) >= 2
    /\ c[1].csi = CSI_ERROR
    /\ trim(c[1].raw) = T_ERROR
    /\ trim(c[2].raw) = T_TEST_RUN_FAILED

is_error_test_run_failed(c) ==
    /\ Len(c) = 2
    /\ c[1].csi = CSI_ERROR
    /\ trim(c[1].raw) = T_ERROR
    /\ trim(c[2].raw) = T_TEST_RUN_FAILED

\* mutant: the line must hold the Canceling run alone
is_canceling_alone(c) ==
    /\ Len(c) = 1
    /\ c[1].csi = CSI_ERROR
    /\ trim(c[1].raw) = T_CANCELING

\* mutant: the text of the first run is not looked at
is_canceling_any_error(c) ==
    /\ Len(c) >= 1
    /\ c[1].csi = CSI_ERROR

is_canceling(c) ==
    /\ Len(c) >= 1
    /\ c[1].csi = CSI_ERROR
    /\ trim(c[1].raw) = T_CANCELING

\* TLine::if_unstyled: the text of a line made of one run without style
if_unstyled(c) ==
    IF Len(c) = 1 /\ c[1].csi = "" THEN Some(c[1].raw) ELSE None

is_running_banner(c) == if_unstyled(c).some /\ is_running_tests(if_unstyled(c).val)
is_section_line(c) == if_unstyled(c).some /\ if_unstyled(c).val = T_SECTION_LINE

----------------------------------------------------------------------------
(* LineAnalysis *)

LineType_Title(kind) == [tag |-> "Title", kind |-> kind]
LineType_TestResult(pass) == [tag |-> "TestResult", pass |-> pass]
LineType_SectionEnd == [tag |-> "SectionEnd"]
LineType_Garbage == [tag |-> "Garbage"]
LineType_Normal == [tag |-> "Normal"]
LineType_Delegated(kind) == [tag |-> "Delegated", kind |-> kind]

LineAnalysis_of_type(line_type) == [line_type |-> line_type, key |-> None]
LineAnalysis_title_key(kind, key) == [line_type |-> LineType_Title(kind), key |-> Some(key)]
LineAnalysis_test_result(key, pass) == [line_type |-> LineType_TestResult(pass), key |-> Some(key)]

\* what standard::analyze_line may answer for a line the nextest analyzer
\* does not recognize
StandardResults ==
    { LineAnalysis_of_type(LineType_Normal),
      LineAnalysis_of_type(LineType_Delegated("Error")),
      LineAnalysis_of_type(LineType_Delegated("Location")) }


----------------------------------------------------------------------------
(* The styled lines the analyzer is run on *)

MaxTail == 3    \* runs after the crate name and the blank

SP == <<" ">>
T_DURATION == <<" ", "[", "0", ".", "3", "s", "]", " ">>
T_BACON == <<"b", "a", "c", "o", "n">>
T_DUE_TO == <<" ", "d", "u", "e", " ", "t", "o", " ">>
T_TESTS == <<"t", "e", "s", "t", "s">>
T_COLONS == <<":", ":">>

FirstPool ==
    { TString(CSI_TITLE, T_DASHES_SP), TString(CSI_ERROR, T_DASHES_SP),
      TString("", T_DASHES_SP), TString(CSI_TITLE, T_DASHES),
      TString(CSI_PASS, SP \o SP \o T_PASS), TString(CSI_ERROR, T_FAIL \o SP),
      TString(CSI_ERROR, T_PASS), TString(CSI_PASS, T_FAIL), TString("", T_PASS),
      TString(CSI_PASS, T_PASS \o <<"E", "D">>),
      TString(CSI_ERROR, SP \o SP \o T_CANCELING), TString("", T_CANCELING),
      TString(CSI_PASS, T_CANCELING),
      TString(CSI_ERROR, T_ERROR), TString(CSI_ERROR, SP \o T_ERROR \o <<"\n">>),
      TString("", T_ERROR), TString(CSI_ERROR, T_ERROR \o <<"s">>),
      TString("", T_RUNNING_SP \o <<"1", "2">> \o T_SP_TEST \o <<"s">>),
      TString("", T_RUNNING_SP \o <<"1">> \o T_SP_TEST),
      TString("", T_RUNNING_SP \o T_SP_TEST \o <<"s">>),
      TString("", T_RUNNING_SP \o <<"1">> \o T_SP_TEST \o <<"s", " ">>),
      TString(CSI_CYAN, T_RUNNING_SP \o <<"1">> \o T_SP_TEST),
      TString("", T_SECTION_LINE), TString(CSI_CYAN, T_SECTION_LINE),
      TString("", T_SECTION_LINE \o <<"-">>), TString("", <<>>) }

SecondPool ==
    { TString(CSI_TITLE, T_STDOUT), TString(CSI_ERROR, T_STDERR \o SP \o SP),
      TString("", T_STDOUT \o <<"\t">>), TString(CSI_TITLE, SP \o T_STDOUT),
      TString(CSI_TITLE, <<"S", "T", "D", "O", "U", "T">>),
      TString(CSI_TITLE, T_STDOUT \o <<" ", "x">>),
      TString("", T_DURATION), TString(CSI_CYAN, T_DURATION),
      TString("", T_TEST_RUN_FAILED), TString(CSI_ERROR, SP \o T_TEST_RUN_FAILED \o <<"\n">>),
      TString("", T_TEST_RUN_FAILED \o <<"!">>),
      TString("", T_DUE_TO) }

\* the first two runs of the longer lines
Heads ==
    { << TString(CSI_TITLE, T_DASHES_SP), TString(CSI_TITLE, T_STDOUT) >>,
      << TString("", T_DASHES_SP), TString("", T_STDERR \o SP \o SP) >>,
      << TString(CSI_TITLE, T_DASHES_SP), TString(CSI_TITLE, SP \o T_STDOUT) >>,
      << TString(CSI_TITLE, T_DASHES), TString(CSI_TITLE, T_STDOUT) >>,
      << TString(CSI_PASS, SP \o SP \o T_PASS), TString("", T_DURATION) >>,
      << TString(CSI_ERROR, T_FAIL \o SP), TString("", T_DURATION) >>,
      << TString(CSI_ERROR, T_PASS), TString("", T_DURATION) >>,
      << TString(CSI_PASS, SP \o SP \o T_PASS), TString(CSI_CYAN, T_DURATION) >>,
      << TString(CSI_ERROR, SP \o SP \o T_CANCELING), TString("", T_DUE_TO) >>,
      << TString(CSI_ERROR, T_ERROR), TString("", T_TEST_RUN_FAILED) >> }

\* crate name, blank
Mids ==
    { << TString(CSI_TITLE, T_BACON), TString("", SP) >>,
      << TString("", T_BACON), TString(CSI_CYAN, SP) >> }

TailPool ==
    { TString(CSI_CYAN, T_TESTS), TString(CSI_PASS, T_COLONS), TString(CSI_CYAN, <<>>),
      TString("", T_SP_DASHES), TString(CSI_CYAN, T_SP_DASHES), TString(CSI_TITLE, T_TESTS),
      TString(CSI_TITLE, T_SP_DASHES) }

RECURSIVE SeqsUpTo(_, _)
SeqsUpTo(S, n) ==
    IF n = 0 THEN {<<>>}
    ELSE LET shorter == SeqsUpTo(S, n - 1)
         IN shorter \cup { Append(t, x) : t \in {u \in shorter : Len(u) = n - 1}, x \in S }

Lines ==
    {<<>>}
    \cup { <<a>> : a \in FirstPool }
    \cup { <<a, b>> : a \in FirstPool, b \in SecondPool }
    \cup { Append(h, m[1]) : h \in Heads, m \in Mids }
    \cup { h \o m \o t : h \in Heads, m \in Mids, t \in SeqsUpTo(TailPool, MaxTail) }

----------------------------------------------------------------------------
(* analyze_line, one shape check per step *)

NoSettings == [none |-> TRUE]

LineInit ==
    /\ content \in Lines
    /\ pc = "title_key"
    /\ result = None
    /\ stdCalls = 0
    /\ stdArg = None
    /\ stdRet = None
    /\ settings = NoSettings
    /\ stage = "off"
    /\ applied = <<>>
    /\ args = NoSettings

Return(la) ==
    /\ result' = Some(la)
    /\ pc' = "done"
    /\ UNCHANGED <<content, stdCalls, stdArg, stdRet>>

Decline(next) ==
    /\ pc' = next
    /\ UNCHANGED <<content, result, stdCalls, stdArg, stdRet>>

TryTitleKey ==
    /\ pc = "title_key"
    /\ LET key == title_key(content)
       IN IF key.some THEN Return(LineAnalysis_title_key("TestFail", key.val))
          ELSE Decline("as_test_result")
    /\ UNCHANGED settingsVars

TryTestResult ==
    /\ pc = "as_test_result"
    /\ LET r == as_test_result(content)
       IN IF r.some THEN Return(LineAnalysis_test_result(r.val.key, r.val.pass))
          ELSE Decline("is_canceling")
    /\ UNCHANGED settingsVars

TryCanceling ==
    /\ pc = "is_canceling"
    /\ IF is_canceling(content) THEN Return(LineAnalysis_of_type(LineType_SectionEnd))
       ELSE Decline("is_error_test_run_failed")
    /\ UNCHANGED settingsVars

TryErrorTestRunFailed ==
    /\ pc = "is_error_test_run_failed"
    /\ IF is_error_test_run_failed(content) THEN Return(LineAnalysis_of_type(LineType_Garbage))
       ELSE Decline("if_unstyled")
    /\ UNCHANGED settingsVars

\* mutant: an unrecognized line is answered Normal on the spot
TryUnstyled_no_fallback ==
    /\ pc = "if_unstyled"
    /\ IF is_running_banner(content) THEN Return(LineAnalysis_of_type(LineType_Garbage))
       ELSE IF is_section_line(content) THEN Return(LineAnalysis_of_type(LineType_SectionEnd))
       ELSE Return(LineAnalysis_of_type(LineType_Normal))
    /\ UNCHANGED settingsVars

TryUnstyled ==
    /\ pc = "if_unstyled"
    /\ IF is_running_banner(content) THEN Return(LineAnalysis_of_type(LineType_Garbage))
       ELSE IF is_section_line(content) THEN Return(LineAnalysis_of_type(LineType_SectionEnd))
       ELSE Decline("standard")
    /\ UNCHANGED settingsVars

\* standard::analyze_line(cmd_line), whose answer is returned as it is
Standard ==
    /\ pc = "standard"
    /\ \E la \in StandardResults :
         /\ stdCalls' = stdCalls + 1
         /\ stdArg' = Some(content)
         /\ stdRet' = Some(la)
         /\ result' = Some(la)
    /\ pc' = "done"
    /\ UNCHANGED content
    /\ UNCHANGED settingsVars

analyze_line ==
    \/ TryTitleKey
    \/ TryTestResult
    \/ TryCanceling
    \/ TryErrorTestRunFailed
    \/ TryUnstyled
    \/ Standard

Spec == LineInit /\ [][analyze_line]_vars


----------------------------------------------------------------------------
(* Properties of analyze_line *)

Tag(la) == la.line_type.tag

ShapeMatched(c) ==
    \/ title_key(c).some
    \/ as_test_result(c).some
    \/ is_canceling(c)
    \/ is_error_test_run_failed(c)
    \/ is_running_banner(c)
    \/ is_section_line(c)

\* C1: analyze_line always ends with a value; a line matching no shape is
\* handed, unmodified, to standard::analyze_line exactly once and the answer
\* is returned as it is; a line matching a shape never reaches it.
C1_FallbackExactlyOnce ==
    /\ stdCalls \in {0, 1}
    /\ pc # "done" => (ENABLED analyze_line) /\ ~result.some /\ stdCalls = 0
    /\ pc = "done" =>
         /\ result.some
         /\ IF ShapeMatched(content)
            THEN stdCalls = 0 /\ ~stdArg.some
            ELSE stdCalls = 1 /\ stdArg = Some(content) /\ result = stdRet

C1_Witness ==
    /\ pc = "done"
    /\ content = <<>>
    /\ stdCalls = 1
    /\ result = stdRet

CancelingShape(c) ==
    /\ Len(c) >= 1
    /\ c[1].csi = CSI_ERROR
    /\ trim(c[1].raw) = T_CANCELING

\* C4: a line whose first run is error-styled with trimmed text "Canceling"
\* is SectionEnd, without key, whatever follows the first run.
C4_CancelingIsSectionEnd ==
    (pc = "done" /\ CancelingShape(content)) =>
        /\ result = Some(LineAnalysis_of_type(LineType_SectionEnd))
        /\ stdCalls = 0

C4_Witness ==
    /\ pc = "done"
    /\ CancelingShape(content)
    /\ Len(content) >= 6
    /\ Tag(result.val) = "SectionEnd"

RunFailedTexts(c) ==
    /\ Len(c) >= 2
    /\ trim(c[1].raw) = T_ERROR
    /\ trim(c[2].raw) = T_TEST_RUN_FAILED

\* C5: the two-run line (error-styled "error", ": test run failed") is
\* Garbage; with a third run, or with a first run of another style, the
\* run-failure check does not match and the line goes to the fallback.
C5_RunFailedIsGarbage ==
    /\ (pc = "done" /\ RunFailedTexts(content) /\ Len(content) = 2
            /\ content[1].csi = CSI_ERROR) =>
         result = Some(LineAnalysis_of_type(LineType_Garbage)) /\ stdCalls = 0
    /\ (RunFailedTexts(content) /\ (Len(content) > 2 \/ content[1].csi # CSI_ERROR)) =>
         /\ ~is_error_test_run_failed(content)
         /\ pc = "done" => stdCalls = 1

C5_Witness ==
    /\ pc = "done"
    /\ RunFailedTexts(content)
    /\ Len(content) = 2
    /\ content[1].csi = CSI_ERROR
    /\ content[2].csi = CSI_ERROR
    /\ Tag(result.val) = "Garbage"

C5_WitnessThirdRun ==
    /\ pc = "done"
    /\ RunFailedTexts(content)
    /\ Len(content) = 3
    /\ content[1].csi = CSI_ERROR
    /\ stdCalls = 1

\* the verdict of one shape check, None when it declines
CheckVerdict(i, c) ==
    CASE i = 1 -> IF title_key(c).some
                  THEN Some(LineAnalysis_title_key("TestFail", title_key(c).val))
                  ELSE None
      [] i = 2 -> IF as_test_result(c).some
                  THEN Some(LineAnalysis_test_result(as_test_result(c).val.key,
                                                     as_test_result(c).val.pass))
                  ELSE None
      [] i = 3 -> IF is_canceling(c) THEN Some(LineAnalysis_of_type(LineType_SectionEnd))
                  ELSE None
      [] i = 4 -> IF is_error_test_run_failed(c) THEN Some(LineAnalysis_of_type(LineType_Garbage))
                  ELSE None
      [] i = 5 -> IF is_running_banner(c) THEN Some(LineAnalysis_of_type(LineType_Garbage))
                  ELSE IF is_section_line(c) THEN Some(LineAnalysis_of_type(LineType_SectionEnd))
                  ELSE None

CheckIds == 1..5
Orders == Permutations(CheckIds)

\* the first verdict when the checks are tried in the order ord[1], ord[2], ...
\* (v[i] is the verdict of check i)
RECURSIVE FirstVerdict(_, _, _)
FirstVerdict(ord, k, v) ==
    IF k > 5 THEN None
    ELSE IF v[ord[k]].some THEN v[ord[k]]
    ELSE FirstVerdict(ord, k + 1, v)

Verdicts(c) ==
    << CheckVerdict(1, c), CheckVerdict(2, c), CheckVerdict(3, c), CheckVerdict(4, c),
       CheckVerdict(5, c) >>

\* C10: no line satisfies two of the five shape checks, so every order of
\* the checks gives the verdict analyze_line gives.
C10_ChecksExclusive ==
    \A v \in {Verdicts(content)} :
       /\ Cardinality({i \in CheckIds : v[i].some}) <= 1
       /\ (pc = "done" /\ stdCalls = 0) =>
            \A ord \in Orders : FirstVerdict(ord, 1, v) = result
       /\ (pc = "done" /\ stdCalls = 1) =>
            \A ord \in Orders : ~FirstVerdict(ord, 1, v).some

C10_Witness ==
    /\ pc = "done"
    /\ stdCalls = 0
    /\ CheckVerdict(4, content).some
    /\ FirstVerdict(<<5, 4, 3, 2, 1>>, 1, Verdicts(content)) = result


----------------------------------------------------------------------------
(* Key extraction, stated on the line instead of run by run *)

Styled(s) == s.csi # ""
IsCloser(s) == Styled(s) /\ (s.raw = T_SP_DASHES \/ s.csi = CSI_TITLE)
AllStyled(t) == \A i \in DOMAIN t : Styled(t[i])

\* index of the closing run of t, 0 when there is none
CloserAt(t) ==
    IF \E i \in DOMAIN t : IsCloser(t[i])
    THEN CHOOSE i \in DOMAIN t : IsCloser(t[i]) /\ \A j \in 1..(i - 1) : ~IsCloser(t[j])
    ELSE 0

BeforeCloser(t) == IF CloserAt(t) = 0 THEN t ELSE SubSeq(t, 1, CloserAt(t) - 1)

RECURSIVE ConcatRaw(_)
ConcatRaw(t) == IF t = <<>> THEN <<>> ELSE Head(t).raw \o ConcatRaw(Tail(t))

KeyText(t) == ConcatRaw(SelectSeq(BeforeCloser(t), Styled))

\* t: the runs after the crate name and the blank
ExpectedKey(t) ==
    IF CloserAt(t) # 0 /\ CloserAt(t) < Len(t) THEN None
    ELSE IF KeyText(t) = <<>> THEN None
    ELSE Some(KeyText(t))

From(c, i) == SubSeq(c, i, Len(c))

TitlePrefixOk(c) ==
    /\ Len(c) >= 2
    /\ c[1].raw = T_DASHES_SP
    /\ trim_end(c[2].raw) \in {T_STDOUT, T_STDERR}

ResultPrefixOk(c) ==
    /\ Len(c) >= 2
    /\ \/ c[1].csi = CSI_PASS /\ trim(c[1].raw) = T_PASS
       \/ c[1].csi = CSI_ERROR /\ trim(c[1].raw) = T_FAIL
    /\ c[2].csi = ""

HasOutcome(la) == "pass" \in DOMAIN la.line_type

\* C9: in key extraction a run without style neither ends the key nor adds
\* to it; the first styled run with text " ---" or with the title style ends
\* the key and is not appended; a run left after that closing run makes
\* extraction fail, and the line is then neither Title nor TestResult.
C9_KeyExtraction ==
    /\ extract_key_after_crate_name(From(content, 3)) = ExpectedKey(From(content, 5))
    /\ LET t == From(content, 5)
       IN (pc = "done" /\ CloserAt(t) # 0 /\ CloserAt(t) < Len(t)) =>
             Tag(result.val) \notin {"Title", "TestResult"}

C9_Witness ==
    /\ pc = "done"
    /\ TitlePrefixOk(content)
    /\ Len(content) = 7
    /\ ~Styled(content[5])
    /\ content[5].raw = T_SP_DASHES
    /\ IsCloser(content[6])
    /\ ~Styled(content[7])
    /\ stdCalls = 1

C9_WitnessSkipped ==
    /\ pc = "done"
    /\ ResultPrefixOk(content)
    /\ Len(content) = 7
    /\ Styled(content[5])
    /\ ~Styled(content[6])
    /\ content[6].raw = T_SP_DASHES
    /\ Styled(content[7]) /\ ~IsCloser(content[7])
    /\ result.val.key = Some(content[5].raw \o content[7].raw)

\* C6: in a verdict of the nextest checks a key is present exactly for Title
\* and TestResult, an outcome exactly for TestResult, and a key is never
\* empty; a title or result line whose extracted key is empty is passed on
\* to the fallback.
C6_KeyAndOutcome ==
    /\ (pc = "done" /\ stdCalls = 0) =>
         /\ result.val.key.some <=> Tag(result.val) \in {"Title", "TestResult"}
         /\ HasOutcome(result.val) <=> Tag(result.val) = "TestResult"
         /\ result.val.key.some => result.val.key.val # <<>>
    /\ (pc = "done" /\ (TitlePrefixOk(content) \/ ResultPrefixOk(content))
            /\ KeyText(From(content, 5)) = <<>>) =>
         /\ stdCalls = 1
         /\ Tag(result.val) \notin {"Title", "TestResult"}

C6_Witness ==
    /\ pc = "done"
    /\ TitlePrefixOk(content)
    /\ Len(content) = 6
    /\ Styled(content[5]) /\ ~IsCloser(content[5]) /\ content[5].raw = <<>>
    /\ IsCloser(content[6])
    /\ stdCalls = 1

\* the prefix test as the claim words it: the second run trimmed on both sides
ClaimedTitlePrefix(c) ==
    /\ Len(c) >= 2
    /\ c[1].raw = T_DASHES_SP
    /\ trim(c[2].raw) \in {T_STDOUT, T_STDERR}

\* C7 as stated: the title prefix is accepted exactly when the second run,
\* trimmed of leading and trailing whitespace, is STDOUT: or STDERR:.
C7_TitlePrefixTrimmed ==
    pc = "done" =>
        (Tag(result.val) = "Title" <=>
            (ClaimedTitlePrefix(content) /\ ExpectedKey(From(content, 5)).some))

\* C7, amended: the title prefix is accepted exactly when the line has two
\* runs, the first with text "--- " and the second with text STDOUT: or
\* STDERR: followed by whitespace only (whitespace before it is a mismatch);
\* styles play no part; the line is then Title with the extracted key, and
\* on a mismatch the title check declines.
C7_TitlePrefix ==
    /\ title_key(content) =
         IF TitlePrefixOk(content) THEN ExpectedKey(From(content, 5)) ELSE None
    /\ pc = "done" => (Tag(result.val) = "Title" <=> title_key(content).some)
    /\ (pc = "done" /\ title_key(content).some) =>
         result = Some(LineAnalysis_title_key("TestFail", title_key(content).val))
    /\ (pc \notin {"title_key", "done"}) => ~title_key(content).some

C7_Witness ==
    /\ pc = "done"
    /\ TitlePrefixOk(content)
    /\ ~Styled(content[1]) /\ ~Styled(content[2])
    /\ content[2].raw # trim(content[2].raw)
    /\ Tag(result.val) = "Title"


NoCloserIn(t) == \A i \in DOMAIN t : ~IsCloser(t[i])

\* a result line as the claim words it: marker, duration without style,
\* crate name, blank, then one or more key runs, each with a style
WellFormedResult(c) ==
    /\ Len(c) >= 5
    /\ ResultPrefixOk(c)
    /\ AllStyled(From(c, 5))

MismatchedMarker(c) ==
    /\ Len(c) >= 1
    /\ \/ c[1].csi = CSI_ERROR /\ trim(c[1].raw) = T_PASS
       \/ c[1].csi = CSI_PASS /\ trim(c[1].raw) = T_FAIL

\* C2 as stated: every well-formed result line is a TestResult, true for
\* PASS and false for FAIL, keyed by the concatenation of its key runs.
C2_EveryResultLine ==
    (pc = "done" /\ WellFormedResult(content)) =>
        result = Some(LineAnalysis_test_result(ConcatRaw(From(content, 5)),
                                               trim(content[1].raw) = T_PASS))

\* C2, amended: a well-formed result line whose key runs carry neither the
\* title style nor the text " ---", and whose key text is not empty, is a
\* TestResult, true for PASS and false for FAIL, keyed by the concatenation
\* of its key runs; PASS in the error style or FAIL in the pass style is no
\* test result; only a TestResult carries an outcome.
C2_ResultLine ==
    /\ (pc = "done" /\ WellFormedResult(content) /\ NoCloserIn(From(content, 5))
            /\ ConcatRaw(From(content, 5)) # <<>>) =>
         result = Some(LineAnalysis_test_result(ConcatRaw(From(content, 5)),
                                                trim(content[1].raw) = T_PASS))
    /\ (pc = "done" /\ MismatchedMarker(content)) => Tag(result.val) # "TestResult"
    /\ pc = "done" => (HasOutcome(result.val) <=> Tag(result.val) = "TestResult")

C2_Witness ==
    /\ pc = "done"
    /\ WellFormedResult(content)
    /\ NoCloserIn(From(content, 5))
    /\ Len(content) = 7
    /\ trim(content[1].raw) = T_FAIL
    /\ result.val.line_type = LineType_TestResult(FALSE)
    /\ result.val.key = Some(content[5].raw \o content[6].raw \o content[7].raw)

\* a title line as the claim words it: "--- ", STDOUT: or STDERR:, crate
\* name, blank, one or more key runs each with a style, and a last run " ---"
WellFormedTitle(c) ==
    /\ Len(c) >= 6
    /\ TitlePrefixOk(c)
    /\ c[Len(c)].raw = T_SP_DASHES
    /\ AllStyled(SubSeq(c, 5, Len(c) - 1))

TitleKeyRuns(c) == SubSeq(c, 5, Len(c) - 1)

\* the runs of a title line that are not key runs
NonKeyRuns(c) == {1, 2, 3, 4, Len(c)}
Restyled(c, i, csi) == [c EXCEPT ![i].csi = csi]

\* C3 as stated: every well-formed title line is a Title keyed by the
\* concatenation of its key runs.
C3_EveryTitleLine ==
    (pc = "done" /\ WellFormedTitle(content)) =>
        result = Some(LineAnalysis_title_key("TestFail", ConcatRaw(TitleKeyRuns(content))))

\* C3, amended: a well-formed title line whose key runs carry neither the
\* title style nor the text " ---", and whose key text is not empty, is a
\* Title keyed by the concatenation, in order, of its key runs, whichever
\* styles (empty or not) the two prefix runs, the crate name, the blank and
\* the closing run carry.
C3_TitleLine ==
    (WellFormedTitle(content) /\ NoCloserIn(TitleKeyRuns(content))
        /\ ConcatRaw(TitleKeyRuns(content)) # <<>>) =>
        /\ pc = "done" =>
             result = Some(LineAnalysis_title_key("TestFail", ConcatRaw(TitleKeyRuns(content))))
        /\ \A i \in NonKeyRuns(content) : \A csi \in {"", CSI_TITLE, CSI_ERROR, CSI_CYAN} :
             title_key(Restyled(content, i, csi)) = Some(ConcatRaw(TitleKeyRuns(content)))

C3_Witness ==
    /\ pc = "done"
    /\ WellFormedTitle(content)
    /\ NoCloserIn(TitleKeyRuns(content))
    /\ Len(content) = 7
    /\ ~Styled(content[1]) /\ ~Styled(content[2]) /\ ~Styled(content[3])
    /\ Styled(content[4])
    /\ ~Styled(content[7])
    /\ content[5].raw # content[6].raw
    /\ result.val.key = Some(content[5].raw \o content[6].raw)


----------------------------------------------------------------------------
(* Settings::read.  The keybindings and the exports, which are merged by    *)
(* KeyBindings and ExportsSettings, are left out of the Settings record.    *)

NoJobs == [n \in {} |-> ""]

\* ConcreteJobRef: a job is referred to by its name or by an alias
JobName(n) == [alias |-> FALSE, name |-> n]
JobAlias(n) == [alias |-> TRUE, name |-> n]

\* Settings::default()
DefaultSettings ==
    [ additional_alias_args |-> None,
      additional_job_args |-> <<>>,
      all_features |-> FALSE,
      arg_job |-> None,
      config_files |-> <<>>,
      default_job |-> JobName("check"),
      default_watch |-> TRUE,
      features |-> None,
      grace_period |-> 5,
      help_line |-> TRUE,
      ignore |-> <<>>,
      ignored_lines |-> None,
      jobs |-> NoJobs,
      no_default_features |-> FALSE,
      on_change_strategy |-> None,
      reverse |-> FALSE,
      show_changes_count |-> FALSE,
      summary |-> FALSE,
      watch |-> <<>>,
      wrap |-> TRUE ]

\* a Config in which nothing is defined
EmptyConfig ==
    [ summary |-> None, wrap |-> None, reverse |-> None, help_line |-> None,
      additional_alias_args |-> None, jobs |-> NoJobs, default_job |-> None,
      show_changes_count |-> None, on_change_strategy |-> None,
      ignored_lines |-> None, grace_period |-> None, default_watch |-> None,
      watch |-> None, ignore |-> <<>> ]

\* mutant: a job already known keeps its first definition
apply_config_jobs_keep_existing(s, config) ==
    [ s EXCEPT
        !.summary = IF config.summary.some THEN config.summary.val ELSE @,
        !.wrap = IF config.wrap.some THEN config.wrap.val ELSE @,
        !.reverse = IF config.reverse.some THEN config.reverse.val ELSE @,
        !.help_line = IF config.help_line.some THEN config.help_line.val ELSE @,
        !.additional_alias_args =
            IF config.additional_alias_args.some THEN config.additional_alias_args ELSE @,
        !.jobs = [n \in DOMAIN @ \cup DOMAIN config.jobs |->
                    IF n \in DOMAIN @ THEN @[n] ELSE config.jobs[n]],
        !.default_job = IF config.default_job.some THEN config.default_job.val ELSE @,
        !.show_changes_count =
            IF config.show_changes_count.some THEN config.show_changes_count.val ELSE @,
        !.on_change_strategy =
            IF config.on_change_strategy.some THEN config.on_change_strategy ELSE @,
        !.ignored_lines = IF config.ignored_lines.some THEN config.ignored_lines ELSE @,
        !.grace_period = IF config.grace_period.some THEN config.grace_period.val ELSE @,
        !.default_watch = IF config.default_watch.some THEN config.default_watch.val ELSE @,
        !.watch = IF config.watch.some THEN config.watch.val ELSE @,
        !.ignore = @ \o config.ignore ]

\* Settings::apply_config
apply_config(s, config) ==
    [ s EXCEPT
        !.summary = IF config.summary.some THEN config.summary.val ELSE @,
        !.wrap = IF config.wrap.some THEN config.wrap.val ELSE @,
        !.reverse = IF config.reverse.some THEN config.reverse.val ELSE @,
        !.help_line = IF config.help_line.some THEN config.help_line.val ELSE @,
        !.additional_alias_args =
            IF config.additional_alias_args.some THEN config.additional_alias_args ELSE @,
        !.jobs = [n \in DOMAIN @ \cup DOMAIN config.jobs |->
                    IF n \in DOMAIN config.jobs THEN config.jobs[n] ELSE @[n]],
        !.default_job = IF config.default_job.some THEN config.default_job.val ELSE @,
        !.show_changes_count =
            IF config.show_changes_count.some THEN config.show_changes_count.val ELSE @,
        !.on_change_strategy =
            IF config.on_change_strategy.some THEN config.on_change_strategy ELSE @,
        !.ignored_lines = IF config.ignored_lines.some THEN config.ignored_lines ELSE @,
        !.grace_period = IF config.grace_period.some THEN config.grace_period.val ELSE @,
        !.default_watch = IF config.default_watch.some THEN config.default_watch.val ELSE @,
        !.watch = IF config.watch.some THEN config.watch.val ELSE @,
        !.ignore = @ \o config.ignore ]

\* Settings::apply_args; the assignments are made in the order of the code
apply_args(s, a) ==
    LET s1 == [s EXCEPT !.arg_job = IF a.job.some THEN a.job ELSE @]
        s2 == [s1 EXCEPT !.summary = IF a.no_summary THEN FALSE ELSE @]
        s3 == [s2 EXCEPT !.summary = IF a.summary THEN TRUE ELSE @]
        s4 == [s3 EXCEPT !.wrap = IF a.no_wrap THEN FALSE ELSE @]
        s5 == [s4 EXCEPT !.wrap = IF a.wrap THEN TRUE ELSE @]
        s6 == [s5 EXCEPT !.reverse = IF a.no_reverse THEN FALSE ELSE @]
        s7 == [s6 EXCEPT !.help_line = IF a.help_line THEN TRUE ELSE @]
        s8 == [s7 EXCEPT !.help_line = IF a.no_help_line THEN FALSE ELSE @]
        s9 == [s8 EXCEPT !.reverse = IF a.reverse THEN TRUE ELSE @]
        s10 == [s9 EXCEPT !.no_default_features = IF a.no_default_features THEN TRUE ELSE @]
        s11 == [s10 EXCEPT !.all_features = IF a.all_features THEN TRUE ELSE @]
        s12 == [s11 EXCEPT !.features = IF a.features.some THEN a.features ELSE @]
    IN [s12 EXCEPT !.additional_job_args = a.additional_job_args]

\* Settings::register_config_file
register_config_file(s, path) == [s EXCEPT !.config_files = Append(@, path)]

\* Settings::check: at least one job, and a default job given by name is
\* one of them
check(s) ==
    /\ DOMAIN s.jobs # {}
    /\ ~s.default_job.alias => s.default_job.name \in DOMAIN s.jobs


\* Config::default_package_config(): the jobs shipped with the program
DefaultPackageConfig ==
    [ EmptyConfig EXCEPT
        !.jobs = [n \in {"check", "test"} |-> IF n = "check" THEN "cargo check" ELSE "cargo test"],
        !.default_job = Some(JobName("check")) ]

\* what a configuration file may hold
ConfigPool ==
    { [ EmptyConfig EXCEPT
          !.summary = Some(TRUE), !.help_line = Some(FALSE),
          !.ignore = <<"target">>,
          !.jobs = [n \in {"check"} |-> "cargo check --all-targets"],
          !.grace_period = Some(15), !.on_change_strategy = Some("kill_then_restart") ],
      [ EmptyConfig EXCEPT
          !.summary = Some(FALSE), !.wrap = Some(FALSE), !.reverse = Some(TRUE),
          !.watch = Some(<<"src">>), !.ignore = <<"!target/doc">>,
          !.default_job = Some(JobName("test")), !.default_watch = Some(FALSE) ],
      [ EmptyConfig EXCEPT
          !.wrap = Some(TRUE), !.help_line = Some(TRUE), !.reverse = Some(FALSE),
          !.watch = Some(<<"tests", "benches">>),
          !.jobs = [n \in {"check", "nextest"} |->
                      IF n = "check" THEN "cargo clippy" ELSE "cargo nextest run"],
          !.default_job = Some(JobName("nextest")),
          !.additional_alias_args = Some(<<"--quiet">>),
          !.show_changes_count = Some(TRUE), !.ignored_lines = Some(<<"^note:">>),
          !.on_change_strategy = Some("wait_then_restart") ],
      [ EmptyConfig EXCEPT
          !.default_job = Some(JobName("doc")), !.grace_period = Some(0),
          !.additional_alias_args = Some(<<>>), !.show_changes_count = Some(FALSE),
          !.default_watch = Some(TRUE), !.ignored_lines = Some(<<>>) ] }

NoArgs ==
    [ job |-> None, no_summary |-> FALSE, summary |-> FALSE, no_wrap |-> FALSE,
      wrap |-> FALSE, no_reverse |-> FALSE, reverse |-> FALSE, help_line |-> FALSE,
      no_help_line |-> FALSE, no_default_features |-> FALSE, all_features |-> FALSE,
      features |-> None, additional_job_args |-> <<>> ]

\* the launch arguments tried
ArgsPool ==
    { NoArgs,
      [ NoArgs EXCEPT !.summary = TRUE, !.no_wrap = TRUE, !.job = Some(JobName("test")),
                      !.additional_job_args = <<"--", "--nocapture">> ],
      [ NoArgs EXCEPT !.no_summary = TRUE, !.wrap = TRUE, !.reverse = TRUE,
                      !.no_help_line = TRUE, !.features = Some("serde,cli") ],
      [ NoArgs EXCEPT !.no_reverse = TRUE, !.help_line = TRUE, !.all_features = TRUE,
                      !.no_default_features = TRUE, !.job = Some(JobAlias("w")) ],
      [ NoArgs EXCEPT !.no_summary = TRUE, !.summary = TRUE, !.no_reverse = TRUE,
                      !.reverse = TRUE, !.help_line = TRUE, !.no_help_line = TRUE,
                      !.no_wrap = TRUE, !.wrap = TRUE ] }

\* what is found where a configuration file is looked for
Absent == [found |-> "absent"]
Invalid == [found |-> "invalid"]
Found(c) == [found |-> "config", config |-> c]
FileStates == {Absent, Invalid} \cup { Found(c) : c \in ConfigPool }

SettingsInit ==
    /\ settings = DefaultSettings
    /\ stage = "default_package_config"
    /\ applied = <<>>
    /\ args \in ArgsPool
    /\ content = <<>>
    /\ pc = "off"
    /\ result = None
    /\ stdCalls = 0
    /\ stdArg = None
    /\ stdRet = None

\* one "if the file is there, load it, register it, apply it" block of read:
\* a file that cannot be loaded ends read with the error
LoadElement(element, path, next) ==
    /\ stage = element
    /\ \E f \in FileStates :
         CASE f.found = "absent" ->
                /\ stage' = next
                /\ UNCHANGED <<settings, applied>>
           [] f.found = "invalid" ->
                /\ stage' = "failed"
                /\ UNCHANGED <<settings, applied>>
           [] f.found = "config" ->
                /\ settings' = apply_config(register_config_file(settings, path), f.config)
                /\ applied' = Append(applied, [element |-> element, config |-> f.config])
                /\ stage' = next
    /\ UNCHANGED <<args, lineVars>>

ApplyDefaultPackageConfig ==
    /\ stage = "default_package_config"
    /\ settings' = apply_config(settings, DefaultPackageConfig)
    /\ applied' = Append(applied, [element |-> "default_package_config",
                                   config |-> DefaultPackageConfig])
    /\ stage' = "prefs"
    /\ UNCHANGED <<args, lineVars>>

LoadPrefs == LoadElement("prefs", "prefs.toml", "env_prefs")
LoadEnvPrefs == LoadElement("env_prefs", "$BACON_PREFS", "workspace")
LoadWorkspaceConfig == LoadElement("workspace", "workspace/bacon.toml", "package")
LoadPackageConfig == LoadElement("package", "package/bacon.toml", "env_config")
LoadEnvConfig == LoadElement("env_config", "$BACON_CONFIG", "args")

ApplyArgs ==
    /\ stage = "args"
    /\ settings' = apply_args(settings, args)
    /\ stage' = "check"
    /\ UNCHANGED <<applied, args, lineVars>>

Check ==
    /\ stage = "check"
    /\ stage' = IF check(settings) THEN "ok" ELSE "failed"
    /\ UNCHANGED <<settings, applied, args, lineVars>>

read ==
    \/ ApplyDefaultPackageConfig
    \/ LoadPrefs
    \/ LoadEnvPrefs
    \/ LoadWorkspaceConfig
    \/ LoadPackageConfig
    \/ LoadEnvConfig
    \/ ApplyArgs
    \/ Check

SpecSettings == SettingsInit /\ [][read]_vars


----------------------------------------------------------------------------
(* Properties of Settings::read *)

ElementOrder ==
    <<"default_package_config", "prefs", "env_prefs", "workspace", "package", "env_config">>

Rank(element) == CHOOSE i \in DOMAIN ElementOrder : ElementOrder[i] = element

AppliedInOrder ==
    \A i, j \in DOMAIN applied :
        i < j => Rank(applied[i].element) < Rank(applied[j].element)

Max(S) == CHOOSE x \in S : \A y \in S : y <= x

\* the applied elements that define the setting f
Defining(f) == {i \in DOMAIN applied : applied[i].config[f].some}

\* the Option given for f by the last element defining it
LastOption(f) ==
    IF Defining(f) = {} THEN None ELSE applied[Max(Defining(f))].config[f]

LastValue(f, default) ==
    IF Defining(f) = {} THEN default ELSE applied[Max(Defining(f))].config[f].val

WithIgnore == {i \in DOMAIN applied : applied[i].config.ignore # <<>>}
WithJobs == {i \in DOMAIN applied : DOMAIN applied[i].config.jobs # {}}
WithJob(n) == {i \in DOMAIN applied : n \in DOMAIN applied[i].config.jobs}

RECURSIVE AllIgnore(_)
AllIgnore(elements) ==
    IF elements = <<>> THEN <<>>
    ELSE Head(elements).config.ignore \o AllIgnore(Tail(elements))

\* the single-valued settings: the arguments last, then the last element
SingleValuedSettings ==
    /\ settings.summary =
         IF args.summary THEN TRUE
         ELSE IF args.no_summary THEN FALSE ELSE LastValue("summary", FALSE)
    /\ settings.wrap =
         IF args.wrap THEN TRUE
         ELSE IF args.no_wrap THEN FALSE ELSE LastValue("wrap", TRUE)
    /\ settings.reverse =
         IF args.reverse THEN TRUE
         ELSE IF args.no_reverse THEN FALSE ELSE LastValue("reverse", FALSE)
    /\ settings.help_line =
         IF args.no_help_line THEN FALSE
         ELSE IF args.help_line THEN TRUE ELSE LastValue("help_line", TRUE)
    /\ settings.default_job = LastValue("default_job", JobName("check"))
    /\ settings.grace_period = LastValue("grace_period", 5)
    /\ settings.default_watch = LastValue("default_watch", TRUE)
    /\ settings.show_changes_count = LastValue("show_changes_count", FALSE)
    /\ settings.watch = LastValue("watch", <<>>)
    /\ settings.additional_alias_args = LastOption("additional_alias_args")
    /\ settings.on_change_strategy = LastOption("on_change_strategy")
    /\ settings.ignored_lines = LastOption("ignored_lines")
    /\ settings.arg_job = args.job
    /\ settings.features = args.features
    /\ settings.no_default_features = args.no_default_features
    /\ settings.all_features = args.all_features
    /\ settings.additional_job_args = args.additional_job_args

====
